---------------------------- MODULE Spec2Model ----------------------------
(* The camera acquisition session of the tap-to-read application:          *)
(* CameraPreview.tsx (the component that drives useCamera, the two         *)
(* watchdog timers, the fallback and the error views), useCameraPermission *)
(* and the render/effect cycle of React that connects them.                *)
(* Around it, the reader of CameraReaderScreen.tsx: the capture handed to   *)
(* useOnDeviceOcr (recognizeText, the recognition script and its worker),  *)
(* the speech of useTextToSpeech and the playback controls.                *)
(*                                                                         *)
(* One step of the model is one task of the event loop: an event handler,  *)
(* a timer callback or the continuation of an awaited promise, followed by *)
(* the re-render it causes and the effects whose dependencies changed.     *)
EXTENDS Naturals, Sequences, FiniteSets

(***************************************************************************)
(* Bounds of the model                                                     *)
(***************************************************************************)
\* acquisition calls (startCamera / retry promises) that may be pending at once
MaxCalls == 2
\* timer handles the browser hands out (live timers plus handles kept in refs)
MaxTimerId == 4
\* captures at once between the tap and the end of their recognition
MaxCaptures == 2
\* utterances of the synthesizer that have an event to come
MaxUtterances == 2
\* getWorker() calls made
MaxWorkerCalls == 3

(***************************************************************************)
(* Speech rates, in hundredths                                             *)
(***************************************************************************)
\* useState(1.0)
DefaultRate == 100
\* the limits of setRate and of the two controls
MinRate == 50
MaxRate == 200
\* the step of the two controls
RateStep == 25

(***************************************************************************)
(* Values                                                                  *)
(***************************************************************************)
NoError == [type |-> "none", message |-> {}]

\* Raw platform messages, as the set of the fragments they contain.  Case is
\* kept: the classifier lower-cases the message, the view selection does not.
RawMessages == { {}, {"not supported"}, {"HTTPS"} }

\* String.prototype.toLowerCase on one fragment
LowerFragment(f) ==
    CASE f = "Timeout" -> "timeout"
      [] f = "NotReadable" -> "notreadable"
      [] f = "HTTPS" -> "https"
      [] f = "Not Supported" -> "not supported"
      [] OTHER -> f

ToLowerCase(m) == { LowerFragment(f) : f \in m }

\* the errors useCamera reports in the session: {type, message}, one for each
\* way the session treats an error (a refusal, whose message depends on the
\* permission state, and the raw messages above); the classifier is checked
\* over every kind and message under ClassifierSpec
CameraErrors ==
    { [type |-> "permission", message |-> {"denied"}] }
    \cup { [type |-> "unknown", message |-> m] : m \in RawMessages }

\* A text shown or announced: a fixed sentence (id) and, for the one sentence
\* that embeds it, the raw platform message.
Text(id) == [id |-> id, raw |-> {}]
NoText == Text("")

MsgHttps == Text("Camera requires HTTPS. Please access this app over a secure connection.")
MsgUnsupported == Text("Camera is not supported in your browser. Please use a modern browser like Chrome, Safari, or Firefox.")
MsgUnsupportedShort == Text("Camera is not supported in your browser.")
MsgBlocked == Text("Camera access is blocked. Please enable camera permission in your browser settings and tap Retry.")
MsgDenied == Text("Camera access denied. Please allow camera permission and tap Retry.")
MsgNoDevice == Text("No camera found. Please connect a camera and tap Retry.")
MsgTimeout == Text("Camera startup timed out. Please close other apps using the camera and tap Retry.")
MsgInUse == Text("Camera is already in use by another app. Please close other apps using the camera and tap Retry.")
MsgStartFailed == Text("Camera failed to start. Please close other apps using the camera and tap Retry.")
MsgBlank == Text("Camera preview is blank. Please close other apps using the camera and tap Retry.")
MsgRaw(m) == [id |-> "Camera error: ${message}. Please tap Retry.", raw |-> m]

\* String.prototype.includes on a text, for the two fragments the views test
Includes(t, fragment) ==
    CASE fragment = "not supported" ->
             t.id \in {MsgUnsupported.id, MsgUnsupportedShort.id} \/ "not supported" \in t.raw
      [] fragment = "HTTPS" ->
             t.id = MsgHttps.id \/ "HTTPS" \in t.raw
      [] OTHER -> FALSE

(***************************************************************************)
(* State                                                                   *)
(***************************************************************************)
VARIABLES
    \* the platform
    isSecureContext,        \* window.isSecureContext
    hasMediaDevices,        \* navigator.mediaDevices.getUserMedia exists
    hasPermissionsApi,      \* navigator.permissions.query exists
    platformPermission,     \* what the platform's PermissionStatus reports
    visibilityState,        \* document.visibilityState
    videoHasFrame,          \* the <video> element has decoded a frame
    timers,                 \* live timers: set by setTimeout, not yet fired or cleared
    \* useCamera
    isActive, error, isLoading,
    calls,                  \* pending startCamera()/retry() promises, oldest first
    \* useCameraPermission
    permissionState, permissionQueryPending, permissionListening,
    \* CameraPreview: state
    showFallback, userFriendlyError, isVideoRendering,
    \* CameraPreview: refs
    hasAttemptedStartRef, isStartingRef, hasShownFallbackRef,
    hasAttemptedRestartRef, startupTimeoutRef, blankPreviewTimeoutRef,
    \* React
    mounted,                \* the component is mounted
    view,                   \* the view returned by the last render
    startupCleanup,         \* the startup-watchdog effect returned a cleanup
    blankCleanup,           \* the blank-watchdog effect returned a cleanup
    videoListening,         \* checkVideoRendering listens on the mounted <video>
    \* CameraReaderScreen
    announcement,           \* the message of the LiveAnnouncer
    recognitions,           \* recognizeText() calls in progress
    \* useCamera: frame capture
    captures,               \* pending capturePhoto() promises
    \* useOnDeviceOcr
    isProcessing,           \* the hook's isProcessing state
    scriptLoaded, scriptLoading,
    loadPromise,            \* "null", or the state of the promise it holds
    tesseract,              \* window.Tesseract is defined
    workerInstance,         \* 0 for null, else the worker it holds
    workerCalls,            \* getWorker() calls: where each one is
    \* useTextToSpeech
    isSpeaking, isPaused, speechError, rate,
    hasSpeechSynthesis,     \* window.speechSynthesis exists
    utterances,             \* the synthesizer's utterances with an event to come
    synthPaused,            \* speechSynthesis.paused
    \* CameraReaderScreen: state
    lastRecognizedText, audioState,
    \* history
    scriptsAppended,        \* <script> elements appended to the document
    workersCreated,         \* createWorker() calls made
    statusOut,              \* the statuses onStatusChange received in this step
    restartsThisAttempt     \* automatic restarts since the last fresh attempt

vars ==
    << isSecureContext, hasMediaDevices, hasPermissionsApi, platformPermission,
       visibilityState, videoHasFrame, timers, isActive, error, isLoading, calls,
       permissionState, permissionQueryPending, permissionListening,
       showFallback, userFriendlyError, isVideoRendering,
       hasAttemptedStartRef, isStartingRef, hasShownFallbackRef,
       hasAttemptedRestartRef, startupTimeoutRef, blankPreviewTimeoutRef,
       mounted, view, startupCleanup, blankCleanup, videoListening,
       announcement, recognitions, captures, statusOut, restartsThisAttempt,
       isProcessing, scriptLoaded, scriptLoading, loadPromise, tesseract,
       workerInstance, workerCalls, isSpeaking, isPaused, speechError, rate,
       hasSpeechSynthesis, utterances, synthPaused, lastRecognizedText,
       audioState, scriptsAppended, workersCreated >>

\* The state as one record, so that a handler is a function from state to state.
St ==
    [ isSecureContext |-> isSecureContext, hasMediaDevices |-> hasMediaDevices,
      hasPermissionsApi |-> hasPermissionsApi,
      platformPermission |-> platformPermission,
      visibilityState |-> visibilityState, videoHasFrame |-> videoHasFrame,
      timers |-> timers, isActive |-> isActive, error |-> error,
      isLoading |-> isLoading, calls |-> calls,
      permissionState |-> permissionState,
      permissionQueryPending |-> permissionQueryPending,
      permissionListening |-> permissionListening,
      showFallback |-> showFallback, userFriendlyError |-> userFriendlyError,
      isVideoRendering |-> isVideoRendering,
      hasAttemptedStartRef |-> hasAttemptedStartRef, isStartingRef |-> isStartingRef,
      hasShownFallbackRef |-> hasShownFallbackRef,
      hasAttemptedRestartRef |-> hasAttemptedRestartRef,
      startupTimeoutRef |-> startupTimeoutRef,
      blankPreviewTimeoutRef |-> blankPreviewTimeoutRef,
      mounted |-> mounted, view |-> view, startupCleanup |-> startupCleanup,
      blankCleanup |-> blankCleanup, videoListening |-> videoListening,
      announcement |-> announcement, recognitions |-> recognitions,
      captures |-> captures, statusOut |-> statusOut,
      restartsThisAttempt |-> restartsThisAttempt,
      isProcessing |-> isProcessing,
      scriptLoaded |-> scriptLoaded,
      scriptLoading |-> scriptLoading,
      loadPromise |-> loadPromise,
      tesseract |-> tesseract,
      workerInstance |-> workerInstance,
      workerCalls |-> workerCalls,
      isSpeaking |-> isSpeaking,
      isPaused |-> isPaused,
      speechError |-> speechError,
      rate |-> rate,
      hasSpeechSynthesis |-> hasSpeechSynthesis,
      utterances |-> utterances,
      synthPaused |-> synthPaused,
      lastRecognizedText |-> lastRecognizedText,
      audioState |-> audioState,
      scriptsAppended |-> scriptsAppended,
      workersCreated |-> workersCreated ]

Apply(s) ==
    /\ isSecureContext' = s.isSecureContext
    /\ hasMediaDevices' = s.hasMediaDevices
    /\ hasPermissionsApi' = s.hasPermissionsApi
    /\ platformPermission' = s.platformPermission
    /\ visibilityState' = s.visibilityState
    /\ videoHasFrame' = s.videoHasFrame
    /\ timers' = s.timers
    /\ isActive' = s.isActive
    /\ error' = s.error
    /\ isLoading' = s.isLoading
    /\ calls' = s.calls
    /\ permissionState' = s.permissionState
    /\ permissionQueryPending' = s.permissionQueryPending
    /\ permissionListening' = s.permissionListening
    /\ showFallback' = s.showFallback
    /\ userFriendlyError' = s.userFriendlyError
    /\ isVideoRendering' = s.isVideoRendering
    /\ hasAttemptedStartRef' = s.hasAttemptedStartRef
    /\ isStartingRef' = s.isStartingRef
    /\ hasShownFallbackRef' = s.hasShownFallbackRef
    /\ hasAttemptedRestartRef' = s.hasAttemptedRestartRef
    /\ startupTimeoutRef' = s.startupTimeoutRef
    /\ blankPreviewTimeoutRef' = s.blankPreviewTimeoutRef
    /\ mounted' = s.mounted
    /\ view' = s.view
    /\ startupCleanup' = s.startupCleanup
    /\ blankCleanup' = s.blankCleanup
    /\ videoListening' = s.videoListening
    /\ announcement' = s.announcement
    /\ recognitions' = s.recognitions
    /\ captures' = s.captures
    /\ statusOut' = s.statusOut
    /\ restartsThisAttempt' = s.restartsThisAttempt
    /\ isProcessing' = s.isProcessing
    /\ scriptLoaded' = s.scriptLoaded
    /\ scriptLoading' = s.scriptLoading
    /\ loadPromise' = s.loadPromise
    /\ tesseract' = s.tesseract
    /\ workerInstance' = s.workerInstance
    /\ workerCalls' = s.workerCalls
    /\ isSpeaking' = s.isSpeaking
    /\ isPaused' = s.isPaused
    /\ speechError' = s.speechError
    /\ rate' = s.rate
    /\ hasSpeechSynthesis' = s.hasSpeechSynthesis
    /\ utterances' = s.utterances
    /\ synthPaused' = s.synthPaused
    /\ lastRecognizedText' = s.lastRecognizedText
    /\ audioState' = s.audioState
    /\ scriptsAppended' = s.scriptsAppended
    /\ workersCreated' = s.workersCreated


(***************************************************************************)
(* Helpers: the status stream and the browser's timers                     *)
(***************************************************************************)
\* onStatusChange(status): CameraReaderScreen.handleCameraStatusChange
OnStatusChange(s, status) ==
    [s EXCEPT !.statusOut = Append(@, status), !.announcement = status]

\* a clearTimeout that cancels nothing
ClearTimeout_LeavesTimer(s, handle) == s

\* clearTimeout(handle); the handle 0 stands for null
ClearTimeout(s, handle) ==
    [s EXCEPT !.timers = { t \in @ : t.id # handle }]

\* a handle the browser has not handed out to a live timer or a ref
FreshTimerId(s) ==
    CHOOSE i \in 1..MaxTimerId :
        /\ i \notin { t.id : t \in s.timers }
        /\ i \notin { s.startupTimeoutRef, s.blankPreviewTimeoutRef }
        /\ \A j \in 1..MaxTimerId :
              ( j \notin { t.id : t \in s.timers }
                /\ j \notin { s.startupTimeoutRef, s.blankPreviewTimeoutRef } ) => i <= j

\* setTimeout(callback, ms): the callback keeps the values of the render that
\* armed it (isActive, error, isVideoRendering); superseded records whether a
\* newer acquisition attempt began after it was armed.
NewTimer(s, kind, handle) ==
    [ id |-> handle, kind |-> kind, isActive |-> s.isActive, error |-> s.error,
      isVideoRendering |-> s.isVideoRendering, superseded |-> FALSE ]

(***************************************************************************)
(* useCamera: the device handle behind startCamera() and retry()           *)
(***************************************************************************)
IsSupported(s) == s.hasMediaDevices

\* a new acquisition call is pending; every older call and timer is superseded
IssueCall(s, origin) ==
    [s EXCEPT
        !.calls = Append([ i \in 1..Len(@) |-> [@[i] EXCEPT !.superseded = TRUE] ],
                         [origin |-> origin, superseded |-> FALSE]),
        !.timers = { [t EXCEPT !.superseded = TRUE] : t \in @ }]

\* startCamera(): release whatever stream is held, then acquire
StartCamera(s, origin) ==
    [IssueCall(s, origin) EXCEPT
        !.isLoading = TRUE, !.error = NoError, !.isActive = FALSE,
        !.videoHasFrame = FALSE]

\* retry(): stop the current stream, then startCamera()
Retry(s, origin) == StartCamera(s, origin)

\* the outcomes of a pending acquisition: a stream, a DeviceError, or a
\* failure that reports nothing
Outcomes ==
    { [ok |-> TRUE, error |-> NoError], [ok |-> FALSE, error |-> NoError] }
    \cup { [ok |-> FALSE, error |-> e] : e \in CameraErrors }

\* what the hook's state becomes when the acquisition settles
Settle(s, outcome) ==
    IF outcome.ok
    THEN [s EXCEPT !.isActive = TRUE, !.error = NoError, !.isLoading = FALSE]
    ELSE IF outcome.error # NoError
    THEN [s EXCEPT !.error = outcome.error, !.isActive = FALSE,
                   !.videoHasFrame = FALSE, !.isLoading = FALSE]
    ELSE [s EXCEPT !.isLoading = FALSE]

(***************************************************************************)
(* useCameraPermission                                                     *)
(***************************************************************************)
\* switch (result.state) of checkPermission and of its change listener
FromPlatform(state) ==
    CASE state = "granted" -> "granted"
      [] state = "denied" -> "denied"
      [] state = "prompt" -> "prompt"
      [] OTHER -> "unknown"

\* a checkPermission() that reads a missing Permissions API as a refusal
CheckPermission_MissingApiDenied(s) ==
    IF ~s.hasMediaDevices
    THEN [s EXCEPT !.permissionState = "unavailable"]
    ELSE IF s.hasPermissionsApi
    THEN [s EXCEPT !.permissionQueryPending = TRUE]
    ELSE [s EXCEPT !.permissionState = "denied"]

\* checkPermission(), up to its await
CheckPermission(s) ==
    IF ~s.hasMediaDevices
    THEN [s EXCEPT !.permissionState = "unavailable"]
    ELSE IF s.hasPermissionsApi
    THEN [s EXCEPT !.permissionQueryPending = TRUE]
    ELSE [s EXCEPT !.permissionState = "unknown"]

(***************************************************************************)
(* CameraPreview: pure parts                                               *)
(***************************************************************************)
\* a classifier without the branch for messages that mention a refusal
GetUserFriendlyErrorMessage_NoRefusalSignature(cameraError, permission) ==
    LET msg == ToLowerCase(cameraError.message)
        refused == IF permission = "denied" THEN MsgBlocked ELSE MsgDenied
    IN  CASE cameraError = NoError -> NoText
          [] cameraError.type = "permission" -> refused
          [] cameraError.type = "not-supported" -> MsgUnsupported
          [] cameraError.type = "not-found" -> MsgNoDevice
          [] OTHER ->
               IF "timeout" \in msg THEN MsgTimeout
               ELSE IF "in use" \in msg \/ "notreadable" \in msg THEN MsgInUse
               ELSE IF permission = "granted" THEN MsgStartFailed
               ELSE MsgRaw(cameraError.message)

\* a classifier that never reads the permission state
GetUserFriendlyErrorMessage_NoPermission(cameraError, permission) ==
    LET msg == ToLowerCase(cameraError.message)
    IN  CASE cameraError = NoError -> NoText
          [] cameraError.type = "permission" -> MsgDenied
          [] cameraError.type = "not-supported" -> MsgUnsupported
          [] cameraError.type = "not-found" -> MsgNoDevice
          [] OTHER ->
               IF "timeout" \in msg THEN MsgTimeout
               ELSE IF "in use" \in msg \/ "notreadable" \in msg THEN MsgInUse
               ELSE IF "permission" \in msg \/ "denied" \in msg THEN MsgDenied
               ELSE MsgRaw(cameraError.message)

GetUserFriendlyErrorMessage(cameraError, permission) ==
    LET msg == ToLowerCase(cameraError.message)
        refused == IF permission = "denied" THEN MsgBlocked ELSE MsgDenied
    IN  CASE cameraError = NoError -> NoText
          [] cameraError.type = "permission" -> refused
          [] cameraError.type = "not-supported" -> MsgUnsupported
          [] cameraError.type = "not-found" -> MsgNoDevice
          [] OTHER ->
               IF "timeout" \in msg THEN MsgTimeout
               ELSE IF "in use" \in msg \/ "notreadable" \in msg THEN MsgInUse
               ELSE IF "permission" \in msg \/ "denied" \in msg THEN refused
               ELSE IF permission = "granted" THEN MsgStartFailed
               ELSE MsgRaw(cameraError.message)

\* a render without the secure-context view: the HTTPS message falls through
\* to the view with the Retry control
ComputeView_NoSecureView(s) ==
    IF IsSupported(s) = FALSE
       \/ (s.userFriendlyError # NoText /\ Includes(s.userFriendlyError, "not supported"))
    THEN "NotSupported"
    ELSE IF s.error # NoError \/ s.userFriendlyError # NoText
    THEN "ErrorRetry"
    ELSE IF s.showFallback
    THEN "Fallback"
    ELSE IF s.isLoading \/ ~s.isActive \/ s.isStartingRef
    THEN "Loading"
    ELSE "ActivePreview"

\* the view the render returns
ComputeView(s) ==
    IF IsSupported(s) = FALSE
       \/ (s.userFriendlyError # NoText /\ Includes(s.userFriendlyError, "not supported"))
    THEN "NotSupported"
    ELSE IF s.userFriendlyError # NoText /\ Includes(s.userFriendlyError, "HTTPS")
    THEN "SecureRequired"
    ELSE IF s.error # NoError \/ s.userFriendlyError # NoText
    THEN "ErrorRetry"
    ELSE IF s.showFallback
            \/ ( s.hasAttemptedStartRef /\ ~s.isActive /\ s.error = NoError
                 /\ ~s.isLoading /\ ~s.isStartingRef /\ s.hasShownFallbackRef )
    THEN "Fallback"
    ELSE IF s.isLoading \/ ~s.isActive \/ s.isStartingRef
    THEN "Loading"
    ELSE "ActivePreview"

\* checkPreflightRequirements(): whether it returns true, and what it leaves
PreflightOk(s) == s.isSecureContext /\ s.hasMediaDevices

\* preflight checks in the other order: capability first
CheckPreflightRequirements_CapabilityFirst(s) ==
    IF ~s.hasMediaDevices
    THEN OnStatusChange([s EXCEPT !.userFriendlyError = MsgUnsupported],
                        MsgUnsupportedShort)
    ELSE IF ~s.isSecureContext
    THEN OnStatusChange([s EXCEPT !.userFriendlyError = MsgHttps], MsgHttps)
    ELSE s

CheckPreflightRequirements(s) ==
    IF ~s.isSecureContext
    THEN OnStatusChange([s EXCEPT !.userFriendlyError = MsgHttps], MsgHttps)
    ELSE IF ~s.hasMediaDevices
    THEN OnStatusChange([s EXCEPT !.userFriendlyError = MsgUnsupported],
                        MsgUnsupportedShort)
    ELSE s


(***************************************************************************)
(* CameraPreview: the effects                                              *)
(***************************************************************************)
\* clearTimeout(startupTimeoutRef.current); startupTimeoutRef.current = null
ClearStartupTimeout(s) ==
    IF s.startupTimeoutRef # 0
    THEN [ClearTimeout(s, s.startupTimeoutRef) EXCEPT !.startupTimeoutRef = 0]
    ELSE s

\* clearTimeout(blankPreviewTimeoutRef.current); blankPreviewTimeoutRef.current = null
ClearBlankTimeout(s) ==
    IF s.blankPreviewTimeoutRef # 0
    THEN [ClearTimeout(s, s.blankPreviewTimeoutRef) EXCEPT !.blankPreviewTimeoutRef = 0]
    ELSE s

\* startupTimeoutRef.current = setTimeout(...), armed by the render r
ArmStartupTimeout(s, r, handle) ==
    [s EXCEPT !.timers = @ \cup {NewTimer(r, "startup", handle)},
              !.startupTimeoutRef = handle,
              !.startupCleanup = TRUE]

\* blankPreviewTimeoutRef.current = setTimeout(...), armed by the render r
ArmBlankTimeout(s, r, handle) ==
    [s EXCEPT !.timers = @ \cup {NewTimer(r, "blank", handle)},
              !.blankPreviewTimeoutRef = handle,
              !.blankCleanup = TRUE]

\* checkVideoRendering: the listener of loadeddata / playing / loadedmetadata
CheckVideoRendering(s) ==
    IF s.videoHasFrame
    THEN ClearBlankTimeout(
             OnStatusChange([s EXCEPT !.isVideoRendering = TRUE],
                 Text("Camera ready. Tap anywhere to capture and read text.")))
    ELSE s

\* the startup watchdog effect, deps [isActive, error, onStatusChange]
StartupWatchdogEffect(s) ==
    IF s.hasAttemptedStartRef /\ ~s.isActive /\ s.error = NoError
       /\ ~s.hasShownFallbackRef /\ ~s.isStartingRef
    THEN ArmStartupTimeout(ClearTimeout(s, s.startupTimeoutRef), s,
                           FreshTimerId(ClearTimeout(s, s.startupTimeoutRef)))
    ELSE [s EXCEPT !.startupCleanup = FALSE]

StartupWatchdogCleanup(s) ==
    IF s.startupCleanup
    THEN [ClearTimeout(s, s.startupTimeoutRef) EXCEPT !.startupCleanup = FALSE]
    ELSE s

\* the blank preview watchdog effect, after checkVideoRendering() ran in it
BlankWatchdogArm(a, r) ==
    ArmBlankTimeout(ClearTimeout(a, a.blankPreviewTimeoutRef), r,
                    FreshTimerId(ClearTimeout(a, a.blankPreviewTimeoutRef)))

\* the blank preview watchdog effect,
\* deps [isActive, videoRef, isVideoRendering, retry, onStatusChange];
\* videoRef.current is the <video> of the active preview view
BlankWatchdogEffect(s) ==
    IF s.isActive /\ s.view = "ActivePreview" /\ ~s.isVideoRendering
    THEN BlankWatchdogArm(CheckVideoRendering([s EXCEPT !.videoListening = TRUE]), s)
    ELSE [s EXCEPT !.blankCleanup = FALSE]

BlankWatchdogCleanup(s) ==
    IF s.blankCleanup
    THEN [ClearTimeout(s, s.blankPreviewTimeoutRef)
            EXCEPT !.blankCleanup = FALSE, !.videoListening = FALSE]
    ELSE s

\* setUserFriendlyError(m); onStatusChange(m)
ShowFriendlyError(s, m) ==
    OnStatusChange([s EXCEPT !.userFriendlyError = m], m)

\* the error effect, deps [error, getUserFriendlyErrorMessage, onStatusChange];
\* getUserFriendlyErrorMessage changes with permissionState
ErrorEffect(s) ==
    IF s.error # NoError
    THEN ClearBlankTimeout(ClearStartupTimeout(
             [ShowFriendlyError(s,
                  GetUserFriendlyErrorMessage(s.error, s.permissionState))
                EXCEPT !.isStartingRef = FALSE]))
    ELSE s

(***************************************************************************)
(* React: render and effects                                               *)
(***************************************************************************)
\* what a render reads; a change of any of it schedules a render
RenderInputs(s) ==
    << s.isActive, s.error, s.isLoading, s.showFallback, s.userFriendlyError,
       s.isVideoRendering, s.permissionState, s.announcement >>

\* the render commits its view; a <video> that leaves the tree takes its
\* listeners and its frames with it
CommitView(s) ==
    IF ComputeView(s) = "ActivePreview"
    THEN [s EXCEPT !.view = "ActivePreview"]
    ELSE [s EXCEPT !.view = ComputeView(s), !.videoListening = FALSE,
                   !.videoHasFrame = FALSE]

\* the dependencies of the three effects, between the renders of d and of s
StartupDepsChanged(d, s) == <<d.isActive, d.error>> # <<s.isActive, s.error>>
BlankDepsChanged(d, s) ==
    <<d.isActive, d.isVideoRendering>> # <<s.isActive, s.isVideoRendering>>
ErrorDepsChanged(d, s) ==
    <<d.error, d.permissionState>> # <<s.error, s.permissionState>>

\* the cleanups of the effects whose dependencies changed ...
RunCleanups(startupDeps, blankDeps, s) ==
    CASE startupDeps /\ blankDeps -> BlankWatchdogCleanup(StartupWatchdogCleanup(s))
      [] startupDeps /\ ~blankDeps -> StartupWatchdogCleanup(s)
      [] ~startupDeps /\ blankDeps -> BlankWatchdogCleanup(s)
      [] OTHER -> s

\* ... then those effects, in the order of the component
RunStartupEffect(deps, s) == IF deps THEN StartupWatchdogEffect(s) ELSE s
RunBlankEffect(deps, s) == IF deps THEN BlankWatchdogEffect(s) ELSE s
RunErrorEffect(deps, s) == IF deps THEN ErrorEffect(s) ELSE s

\* One render after the state d was rendered.
RenderPass(d, s) ==
    IF RenderInputs(d) = RenderInputs(s)
    THEN s
    ELSE RunErrorEffect(ErrorDepsChanged(d, s),
             RunBlankEffect(BlankDepsChanged(d, s),
                 RunStartupEffect(StartupDepsChanged(d, s),
                     RunCleanups(StartupDepsChanged(d, s), BlankDepsChanged(d, s),
                                 CommitView(s)))))

\* The renders that follow a task that took the rendered state d to s: the
\* effects of the first render set state themselves, which renders again.
SecondPass(s, p1) == RenderPass(p1, RenderPass(s, p1))

Commit(d, s) == SecondPass(s, RenderPass(d, s))

\* the state a task starts from
Begin == [St EXCEPT !.statusOut = <<>>]

(***************************************************************************)
(* CameraPreview: the handlers                                             *)
(***************************************************************************)
\* attemptStart(), up to its await; origin names the handler that called it
AttemptStartFrom(s, origin) ==
    IF s.isStartingRef
    THEN s
    ELSE IF ~PreflightOk(s)
    THEN CheckPreflightRequirements(s)
    ELSE LET a == [s EXCEPT !.isStartingRef = TRUE,
                            !.hasAttemptedStartRef = TRUE,
                            !.showFallback = FALSE,
                            !.userFriendlyError = NoText,
                            !.hasShownFallbackRef = FALSE,
                            !.hasAttemptedRestartRef = FALSE,
                            !.isVideoRendering = FALSE,
                            !.restartsThisAttempt = 0]
         IN  StartCamera(OnStatusChange(a, Text("Starting camera...")), origin)

\* attemptStart() called by the mount effect or by handleVisibilityChange
AttemptStart(s) == AttemptStartFrom(s, "attemptStart")

\* attemptStart(), after its await
AttemptStartResumes(s, success) ==
    LET a == [s EXCEPT !.isStartingRef = FALSE]
    IN  IF success
        THEN CheckPermission(ClearStartupTimeout(
                 OnStatusChange(a, Text("Camera started successfully"))))
        ELSE OnStatusChange(a, Text("Camera startup failed"))

\* a handleRetry() that leaves hasAttemptedRestartRef as it is
HandleRetry_KeepsRestartFlag(s) ==
    LET a == [s EXCEPT !.userFriendlyError = NoText,
                       !.isStartingRef = FALSE,
                       !.isVideoRendering = FALSE,
                       !.restartsThisAttempt = 0]
    IN  Retry(OnStatusChange(a, Text("Retrying camera access...")), "handleRetry")

\* handleRetry(), up to its await
HandleRetry(s) ==
    LET a == [s EXCEPT !.userFriendlyError = NoText,
                       !.isStartingRef = FALSE,
                       !.hasAttemptedRestartRef = FALSE,
                       !.isVideoRendering = FALSE,
                       !.restartsThisAttempt = 0]
    IN  Retry(OnStatusChange(a, Text("Retrying camera access...")), "handleRetry")

\* handleRetry(), after its await
HandleRetryResumes(s, success) ==
    IF success
    THEN CheckPermission(ClearStartupTimeout(
             OnStatusChange(s, Text("Camera started successfully"))))
    ELSE s

\* handleFallbackStart()
HandleFallbackStart(s) ==
    LET a == [s EXCEPT !.showFallback = FALSE,
                       !.hasShownFallbackRef = FALSE,
                       !.isStartingRef = FALSE,
                       !.hasAttemptedRestartRef = FALSE,
                       !.isVideoRendering = FALSE]
    IN  AttemptStartFrom(OnStatusChange(a, Text("Starting camera...")),
                         "handleFallbackStart")

\* the callback of the startup watchdog; t holds the values of its closure
StartupTimeoutCallback(s, t) ==
    IF ~t.isActive /\ t.error = NoError /\ ~s.hasShownFallbackRef
    THEN OnStatusChange([s EXCEPT !.showFallback = TRUE,
                                  !.hasShownFallbackRef = TRUE,
                                  !.isStartingRef = FALSE],
                        Text("Camera startup delayed. Please tap to start manually."))
    ELSE s

\* a blank watchdog callback that restarts without recording that it did
BlankTimeoutCallback_NoMark(s, t) ==
    IF ~t.isVideoRendering /\ t.isActive
    THEN IF ~s.hasAttemptedRestartRef
         THEN Retry(OnStatusChange([s EXCEPT !.restartsThisAttempt = @ + 1],
                        Text("Camera preview blank. Attempting restart...")),
                    "restart")
         ELSE OnStatusChange([s EXCEPT !.userFriendlyError = MsgBlank],
                             Text("Camera Error: Preview remains blank."))
    ELSE s

\* the callback of the blank preview watchdog, up to retry()
BlankTimeoutCallback(s, t) ==
    IF ~t.isVideoRendering /\ t.isActive
    THEN IF ~s.hasAttemptedRestartRef
         THEN LET a == [s EXCEPT !.hasAttemptedRestartRef = TRUE,
                                 !.restartsThisAttempt = @ + 1]
              IN  Retry(OnStatusChange(a,
                            Text("Camera preview blank. Attempting restart...")),
                        "restart")
         ELSE OnStatusChange([s EXCEPT !.userFriendlyError = MsgBlank],
                             Text("Camera Error: Preview remains blank."))
    ELSE s

\* retry().then(...) of the blank preview watchdog
RestartResumes(s, success) ==
    IF success
    THEN OnStatusChange(s, Text("Camera restarted successfully"))
    ELSE OnStatusChange([s EXCEPT !.userFriendlyError = MsgBlank],
                        Text("Camera Error: Preview is blank after restart."))

\* handleVisibilityChange
HandleVisibilityChange(s) ==
    IF s.visibilityState = "visible" /\ s.hasAttemptedStartRef /\ ~s.isActive
       /\ s.error = NoError /\ ~s.isStartingRef
    THEN AttemptStart(OnStatusChange(s, Text("Resuming camera...")))
    ELSE s

\* the code that awaits the call of this origin
Resumes(s, origin, success) ==
    CASE origin \in {"attemptStart", "handleFallbackStart"} ->
             AttemptStartResumes(s, success)
      [] origin = "handleRetry" -> HandleRetryResumes(s, success)
      [] OTHER -> RestartResumes(s, success)

\* the first render and the effects of the mount, in order
InitialStartup(s) == IF ~s.hasAttemptedStartRef THEN AttemptStart(s) ELSE s

MountEffects(s) ==
    ErrorEffect(BlankWatchdogEffect(StartupWatchdogEffect(
        InitialStartup(CheckPermission(s)))))

RemoveAt(q, i) == [ j \in 1..(Len(q) - 1) |-> IF j < i THEN q[j] ELSE q[j + 1] ]

(***************************************************************************)
(* Actions                                                                 *)
(***************************************************************************)
Init ==
    /\ isSecureContext \in BOOLEAN
    /\ hasMediaDevices \in BOOLEAN
    /\ hasPermissionsApi \in BOOLEAN
    /\ platformPermission \in {"prompt", "granted", "denied"}
    /\ visibilityState = "visible"
    /\ videoHasFrame = FALSE
    /\ timers = {}
    /\ isActive = FALSE
    /\ error = NoError
    /\ isLoading = FALSE
    /\ calls = <<>>
    /\ permissionState = "unknown"
    /\ permissionQueryPending = FALSE
    /\ permissionListening = FALSE
    /\ showFallback = FALSE
    /\ userFriendlyError = NoText
    /\ isVideoRendering = FALSE
    /\ hasAttemptedStartRef = FALSE
    /\ isStartingRef = FALSE
    /\ hasShownFallbackRef = FALSE
    /\ hasAttemptedRestartRef = FALSE
    /\ startupTimeoutRef = 0
    /\ blankPreviewTimeoutRef = 0
    /\ mounted = FALSE
    /\ view = "Unmounted"
    /\ startupCleanup = FALSE
    /\ blankCleanup = FALSE
    /\ videoListening = FALSE
    /\ announcement = NoText
    /\ recognitions = 0
    /\ captures = 0
    /\ statusOut = <<>>
    /\ restartsThisAttempt = 0
    /\ isProcessing = FALSE
    /\ scriptLoaded = FALSE
    /\ scriptLoading = FALSE
    /\ loadPromise = "null"
    /\ tesseract = FALSE
    /\ workerInstance = 0
    /\ workerCalls = <<>>
    /\ isSpeaking = FALSE
    /\ isPaused = FALSE
    /\ speechError = NoText
    /\ rate = DefaultRate
    /\ hasSpeechSynthesis = TRUE
    /\ utterances = <<>>
    /\ synthPaused = FALSE
    /\ lastRecognizedText = <<>>
    /\ audioState = ""
    /\ scriptsAppended = 0
    /\ workersCreated = 0

\* a task that takes the state to h, and the renders after it
Task(h) ==
    \E before \in {Begin} :
        \E after \in {h} :
            /\ Len(after.calls) <= MaxCalls
            /\ Len(after.utterances) <= MaxUtterances
            /\ \E s \in {Commit(before, after)} : Apply(s)

\* CameraPreview mounts
Mount ==
    /\ ~mounted /\ view = "Unmounted"
    /\ \E r \in {CommitView([Begin EXCEPT !.mounted = TRUE])} :
           \E after \in {MountEffects(r)} :
               /\ Len(after.calls) <= MaxCalls
               /\ \E s \in {Commit(r, after)} : Apply(s)

\* a pending acquisition settles and the code awaiting it resumes
Resolve(i, outcome) ==
    /\ mounted
    /\ i \in 1..Len(calls)
    /\ outcome.ok => platformPermission # "denied"
    /\ LET a == Settle([Begin EXCEPT !.calls = RemoveAt(@, i)], outcome)
       IN  Task(Resumes(a, calls[i].origin, outcome.ok))

\* the user activates Retry Camera Access
ClickRetry ==
    /\ mounted /\ visibilityState = "visible"
    /\ view = "ErrorRetry" /\ ~isLoading
    /\ Task(HandleRetry(Begin))

\* the user activates Start Camera
ClickStartCamera ==
    /\ mounted /\ visibilityState = "visible"
    /\ view = "Fallback" /\ ~isLoading
    /\ Task(HandleFallbackStart(Begin))

\* the startup watchdog expires
StartupTimerFires(t) ==
    /\ t \in timers /\ t.kind = "startup"
    /\ Task(StartupTimeoutCallback([Begin EXCEPT !.timers = @ \ {t}], t))

\* the blank preview watchdog expires
BlankTimerFires(t) ==
    /\ t \in timers /\ t.kind = "blank"
    /\ Task(BlankTimeoutCallback([Begin EXCEPT !.timers = @ \ {t}], t))

\* the page is hidden or shown
VisibilityChange ==
    /\ mounted
    /\ Task(HandleVisibilityChange(
           [Begin EXCEPT !.visibilityState =
                            IF @ = "visible" THEN "hidden" ELSE "visible"]))

\* the <video> decodes its first frame
FrameDecoded ==
    /\ mounted /\ isActive /\ view = "ActivePreview" /\ ~videoHasFrame
    /\ LET a == [Begin EXCEPT !.videoHasFrame = TRUE]
       IN  Task(IF videoListening THEN CheckVideoRendering(a) ELSE a)

\* navigator.permissions.query settles
PermissionQueryResolves(ok) ==
    /\ mounted /\ permissionQueryPending
    /\ Task(IF ok
            THEN [Begin EXCEPT !.permissionQueryPending = FALSE,
                               !.permissionState = FromPlatform(platformPermission),
                               !.permissionListening = TRUE]
            ELSE [Begin EXCEPT !.permissionQueryPending = FALSE,
                               !.permissionState = "unknown"])

\* the platform's permission changes; the change listener runs
PermissionChange(p) ==
    /\ mounted /\ p # platformPermission
    /\ Task(IF permissionListening
            THEN [Begin EXCEPT !.platformPermission = p,
                               !.permissionState = FromPlatform(p)]
            ELSE [Begin EXCEPT !.platformPermission = p])

\* what is left when React discards the component: its state and refs are
\* gone, the hook releases the stream; the promises it awaited, the timers its
\* cleanups did not cancel and the screen's announcement remain
TornDown(s) ==
    [s EXCEPT !.mounted = FALSE, !.view = "TornDown",
              !.isActive = FALSE, !.error = NoError, !.isLoading = FALSE,
              !.videoHasFrame = FALSE,
              !.permissionState = "unknown", !.permissionQueryPending = FALSE,
              !.permissionListening = FALSE,
              !.showFallback = FALSE, !.userFriendlyError = NoText,
              !.isVideoRendering = FALSE,
              !.hasAttemptedStartRef = FALSE, !.isStartingRef = FALSE,
              !.hasShownFallbackRef = FALSE, !.hasAttemptedRestartRef = FALSE,
              !.startupTimeoutRef = 0, !.blankPreviewTimeoutRef = 0,
              !.startupCleanup = FALSE, !.blankCleanup = FALSE,
              !.videoListening = FALSE, !.restartsThisAttempt = 0]

\* the screen stops rendering CameraPreview (the device leaves portrait): the
\* cleanups of its effects run and the component is discarded
Unmount ==
    /\ mounted
    /\ \E s \in {TornDown(BlankWatchdogCleanup(StartupWatchdogCleanup(Begin)))} :
           Apply(s)

\* an acquisition of the discarded component settles: the code after the await
\* runs, its setState calls do nothing, its onStatusChange calls reach the
\* screen
LateResolve(i, outcome) ==
    /\ view = "TornDown"
    /\ i \in 1..Len(calls)
    /\ \E r \in {Resumes([Begin EXCEPT !.calls = RemoveAt(@, i)],
                         calls[i].origin, outcome.ok)} :
           Apply([Begin EXCEPT !.calls = r.calls,
                               !.statusOut = r.statusOut,
                               !.announcement = r.announcement])

Next ==
    \/ Mount
    \/ Unmount
    \/ \E i \in 1..MaxCalls, outcome \in Outcomes : LateResolve(i, outcome)
    \/ \E i \in 1..MaxCalls, outcome \in Outcomes : Resolve(i, outcome)
    \/ ClickRetry
    \/ ClickStartCamera
    \/ \E t \in timers : StartupTimerFires(t)
    \/ \E t \in timers : BlankTimerFires(t)
    \/ VisibilityChange
    \/ FrameDecoded
    \/ \E ok \in BOOLEAN : PermissionQueryResolves(ok)
    \/ \E p \in {"prompt", "granted", "denied"} : PermissionChange(p)

Spec == Init /\ [][Next]_vars


\* Timers that are armed eventually fire; nothing obliges the platform to
\* settle an acquisition, nor the user to act.
FairSpec ==
    /\ Spec
    /\ WF_vars(\E t \in timers : StartupTimerFires(t))
    /\ WF_vars(\E t \in timers : BlankTimerFires(t))

(***************************************************************************)
(* Properties                                                              *)
(***************************************************************************)
\* what the session shows, holds and announces; the timers and the platform
\* are not part of it
SessionUnchanged ==
    /\ UNCHANGED << isActive, error, isLoading, calls, showFallback,
                    userFriendlyError, isVideoRendering, hasAttemptedStartRef,
                    isStartingRef, hasShownFallbackRef, hasAttemptedRestartRef,
                    view, announcement >>
    /\ statusOut' = <<>>

\* C1: in every reachable state at most one acquisition call is pending,
\* whichever trigger issued it.
C1_SingleFlight == Len(calls) <= 1

\* C2: an acquisition that stays pending leads to the Fallback view, given
\* that armed timers fire.
C2_StalledAcquisitionReachesFallback ==
    (mounted /\ calls # <<>>) ~> (view = "Fallback" \/ calls = <<>> \/ ~mounted)

\* the state a watchdog was armed for is gone: the stream is live or an error
\* is set (startup), a frame was observed, the stream is gone or an error is
\* shown (blank), or a newer attempt began after the timer was armed
WatchdogStateExited(t) ==
    \/ t.superseded
    \/ error # NoError
    \/ t.kind = "startup" /\ isActive
    \/ t.kind = "blank" /\ (isVideoRendering \/ ~isActive \/ userFriendlyError # NoText)

\* C3: a watchdog callback that fires after the state it was armed for has
\* exited changes nothing in the session and emits no status.
C3_StaleWatchdogIsNoOp ==
    [][ \A t \in timers :
          ( WatchdogStateExited(t) /\ (StartupTimerFires(t) \/ BlankTimerFires(t)) )
              => SessionUnchanged ]_vars


\* the blank-preview Error with its Retry control is shown
BlankErrorShown == view = "ErrorRetry" /\ userFriendlyError = MsgBlank

\* C4: within one acquisition attempt the automatic restart is issued at most
\* once, and an expiry of the blank watchdog after it sets the blank-preview
\* Error and issues no acquisition call.
C4_RestartAtMostOncePerAttempt ==
    /\ [](restartsThisAttempt <= 1)
    /\ [][ \A t \in timers :
             ( restartsThisAttempt >= 1 /\ BlankTimerFires(t) )
                 => ( /\ userFriendlyError' = MsgBlank
                      /\ calls' = calls
                      /\ restartsThisAttempt' = restartsThisAttempt ) ]_vars

\* C4 witness: a second expiry in the same attempt has set the blank-preview Error
C4_Witness ==
    /\ restartsThisAttempt = 1
    /\ BlankErrorShown
    /\ statusOut = <<Text("Camera Error: Preview remains blank.")>>

\* C5: a stream that is live but never renders a frame leads to exactly one
\* automatic restart, and a restarted stream that never renders a frame leads
\* to the blank-preview Error with Retry (unless a frame is observed, the
\* stream ends or a fresh attempt begins).
C5_BlankStreamEndsInError ==
    /\ (isActive /\ ~isVideoRendering /\ restartsThisAttempt = 0)
           ~> (restartsThisAttempt = 1 \/ isVideoRendering \/ ~isActive)
    /\ (isActive /\ ~isVideoRendering /\ restartsThisAttempt = 1)
           ~> (BlankErrorShown \/ isVideoRendering \/ ~isActive
                 \/ restartsThisAttempt = 0)

\* C6: Start Camera activated while a call is pending or the stream is live
\* issues no call and changes nothing.
C6_ManualStartIdempotent ==
    [][ ( (calls # <<>> \/ isActive) /\ ClickStartCamera ) => SessionUnchanged ]_vars

\* C7: the Fallback view is never rendered while the stream is active; a late
\* success goes to the active preview.
C7_NoFallbackWhileActive == isActive => view # "Fallback"

\* C8: the late resolution of a superseded acquisition call changes nothing in
\* the component, leaves the in-flight guard alone and emits no status.
C8_SupersededResolutionIgnored ==
    [][ \A i \in 1..Len(calls) : \A outcome \in Outcomes :
          ( calls[i].superseded /\ Resolve(i, outcome) )
              => ( /\ UNCHANGED << isStartingRef, showFallback, userFriendlyError,
                                   isVideoRendering, view, announcement >>
                   /\ statusOut' = <<>> ) ]_vars

\* the error the session has classified is terminal: insecure context or
\* unsupported
TerminalError == userFriendlyError \in {MsgHttps, MsgUnsupported}

\* the Retry Camera Access control is rendered
RetryOffered == view = "ErrorRetry"

\* C9: with an insecure-context or unsupported error no Retry control is offered.
C9_TerminalErrorsOfferNoRetry ==
    TerminalError => (~RetryOffered /\ view \in {"SecureRequired", "NotSupported"})

\* C9 witness: the HTTPS error is shown
C9_Witness ==
    mounted /\ userFriendlyError = MsgHttps /\ view = "SecureRequired"

\* C10: every error that is not terminal is shown with the Retry control,
\* whatever its raw message.
C10_RetryableErrorsOfferRetry ==
    ( ~TerminalError /\ (error # NoError \/ userFriendlyError # NoText) )
        => RetryOffered

\* the acquisition call went through attemptStart, which evaluates
\* checkPreflightRequirements() before it calls startCamera()
IssuedAfterPreflight(call) == call.origin \in {"attemptStart", "handleFallbackStart"}

\* C11: Retry Camera Access clears the error, and the acquisition call it
\* issues is issued by attemptStart after the secure-context and capability
\* checks, as on the initial mount.
C11_RetryReentersPreflight ==
    [][ ClickRetry =>
          ( /\ error' = NoError
            /\ userFriendlyError' = NoText
            /\ \A i \in 1..Len(calls') :
                   i > Len(calls) => IssuedAfterPreflight(calls'[i]) ) ]_vars

(***************************************************************************)
(* The error classifier on its own: every error useCamera's type allows,   *)
(* under every permission state, classified by the error effect and        *)
(* rendered.                                                               *)
(***************************************************************************)
\* fragments of one raw message
MaxFragments == 2

\* what a raw message can contain: the signatures the classifier looks for,
\* in the casing browsers use, and the two fragments the views look for
Fragments ==
    { "Timeout", "in use", "NotReadable", "permission", "denied",
      "not supported", "HTTPS" }

ClassifierMessages == { m \in SUBSET Fragments : Cardinality(m) <= MaxFragments }

\* CameraError['type']
ErrorTypes == { "permission", "not-supported", "not-found", "unknown" }

\* PermissionState of useCameraPermission
PermissionStates == { "unknown", "prompt", "granted", "denied", "unavailable" }

\* a mounted preview whose acquisition has just failed with some error, the
\* error effect not yet run
ClassifierInit ==
    /\ error \in { [type |-> ty, message |-> m] :
                       ty \in ErrorTypes, m \in ClassifierMessages }
    /\ permissionState \in PermissionStates
    /\ isSecureContext = TRUE
    /\ hasMediaDevices = TRUE
    /\ hasPermissionsApi = TRUE
    /\ platformPermission = "prompt"
    /\ visibilityState = "visible"
    /\ videoHasFrame = FALSE
    /\ timers = {}
    /\ isActive = FALSE
    /\ isLoading = FALSE
    /\ calls = <<>>
    /\ permissionQueryPending = FALSE
    /\ permissionListening = FALSE
    /\ showFallback = FALSE
    /\ userFriendlyError = NoText
    /\ isVideoRendering = FALSE
    /\ hasAttemptedStartRef = TRUE
    /\ isStartingRef = FALSE
    /\ hasShownFallbackRef = FALSE
    /\ hasAttemptedRestartRef = FALSE
    /\ startupTimeoutRef = 0
    /\ blankPreviewTimeoutRef = 0
    /\ mounted = TRUE
    /\ view = "Loading"
    /\ startupCleanup = FALSE
    /\ blankCleanup = FALSE
    /\ videoListening = FALSE
    /\ announcement = NoText
    /\ recognitions = 0
    /\ captures = 0
    /\ statusOut = <<>>
    /\ restartsThisAttempt = 0
    /\ isProcessing = FALSE
    /\ scriptLoaded = FALSE
    /\ scriptLoading = FALSE
    /\ loadPromise = "null"
    /\ tesseract = FALSE
    /\ workerInstance = 0
    /\ workerCalls = <<>>
    /\ isSpeaking = FALSE
    /\ isPaused = FALSE
    /\ speechError = NoText
    /\ rate = DefaultRate
    /\ hasSpeechSynthesis = TRUE
    /\ utterances = <<>>
    /\ synthPaused = FALSE
    /\ lastRecognizedText = <<>>
    /\ audioState = ""
    /\ scriptsAppended = 0
    /\ workersCreated = 0

\* the error effect classifies the error and the component renders
Classify ==
    /\ statusOut = <<>>
    /\ \E s \in {CommitView(ErrorEffect(Begin))} : Apply(s)

ClassifierSpec == ClassifierInit /\ [][Classify]_vars

\* the error effect has run
Classified == statusOut # <<>>

\* C12: a permission error is classified by the permission state alone
\* (blocked when it is denied, denied otherwise), a not-found error is no-device
\* under every permission state, and each is rendered with the Retry control.
C12_PermissionAndNoDeviceClassification ==
    Classified =>
        /\ error.type = "permission" =>
               /\ userFriendlyError =
                      (IF permissionState = "denied" THEN MsgBlocked ELSE MsgDenied)
               /\ RetryOffered
        /\ error.type = "not-found" =>
               (userFriendlyError = MsgNoDevice /\ RetryOffered)

\* C12 witness: a refused permission under a denied permission state is shown
\* as blocked, whatever the message
C12_Witness ==
    /\ Classified
    /\ error.type = "permission" /\ error.message = {"Timeout", "not supported"}
    /\ permissionState = "denied"
    /\ userFriendlyError = MsgBlocked /\ RetryOffered

\* the signatures the classifier looks for in the lower-cased message
HasTimeoutSignature(m) == "timeout" \in ToLowerCase(m)
HasBusySignature(m) == "in use" \in ToLowerCase(m) \/ "notreadable" \in ToLowerCase(m)
HasRefusalSignature(m) == "permission" \in ToLowerCase(m) \/ "denied" \in ToLowerCase(m)

\* C13 as stated: an error of type unknown with a busy signature is device-busy,
\* with a timeout signature startup-timeout (either of the two when the message
\* has both), and with neither signature stream-start-failed under a granted
\* permission and unknown otherwise.
C13_OtherClassificationAsStated ==
    ( Classified /\ error.type = "unknown" ) =>
        /\ ( HasBusySignature(error.message) /\ ~HasTimeoutSignature(error.message) )
               => userFriendlyError = MsgInUse
        /\ ( HasTimeoutSignature(error.message) /\ ~HasBusySignature(error.message) )
               => userFriendlyError = MsgTimeout
        /\ ( HasTimeoutSignature(error.message) /\ HasBusySignature(error.message) )
               => userFriendlyError \in {MsgInUse, MsgTimeout}
        /\ ( ~HasTimeoutSignature(error.message) /\ ~HasBusySignature(error.message) )
               => userFriendlyError =
                      (IF permissionState = "granted" THEN MsgStartFailed
                       ELSE MsgRaw(error.message))

\* C13 amended: an error of type unknown is startup-timeout when its message
\* has a timeout signature; otherwise device-busy when it has a busy signature;
\* otherwise a permission refusal (blocked under a denied permission state,
\* denied otherwise) when it mentions a permission or a denial; and only with
\* none of these stream-start-failed under a granted permission and unknown
\* otherwise.
C13_OtherClassification ==
    ( Classified /\ error.type = "unknown" ) =>
        userFriendlyError =
            (IF HasTimeoutSignature(error.message) THEN MsgTimeout
             ELSE IF HasBusySignature(error.message) THEN MsgInUse
             ELSE IF HasRefusalSignature(error.message)
                  THEN (IF permissionState = "denied" THEN MsgBlocked ELSE MsgDenied)
             ELSE IF permissionState = "granted" THEN MsgStartFailed
             ELSE MsgRaw(error.message))

\* C13 witness: an unknown error whose message mentions a denial, classified
\* under a granted permission
C13_Witness ==
    /\ Classified
    /\ error = [type |-> "unknown", message |-> {"denied"}]
    /\ permissionState = "granted"
    /\ userFriendlyError = MsgDenied

\* the text is the one sentence that embeds cameraError.message
EmbedsRawMessage(t) == t.id = MsgRaw({}).id

\* C14: neither the text shown to the user nor any status sent to the
\* announcer embeds the raw platform error message.
C14_NoRawMessageSurfaced ==
    /\ ~EmbedsRawMessage(userFriendlyError)
    /\ ~EmbedsRawMessage(announcement)
    /\ \A i \in 1..Len(statusOut) : ~EmbedsRawMessage(statusOut[i])

\* a permission event reaches the component: the query settles or the change
\* listener runs
PermissionEvent ==
    \/ \E ok \in BOOLEAN : PermissionQueryResolves(ok)
    \/ \E p \in {"prompt", "granted", "denied"} : PermissionChange(p)

\* C15: while an error stays set, a permission event changes neither the
\* message shown for it nor emits a further status.
C15_ClassifiedOnce ==
    [][ ( error # NoError /\ PermissionEvent )
          => ( userFriendlyError' = userFriendlyError /\ statusOut' = <<>> ) ]_vars

\* the page becomes visible again
BecomesVisible == VisibilityChange /\ visibilityState = "hidden"

\* an acquisition call issued by attemptStart, the path of the automatic
\* resume, is pending
AttemptStartPending == \E i \in 1..Len(calls) : calls[i].origin = "attemptStart"

\* C16: when the page becomes visible after an attempt, with no stream, no
\* error and no call pending, exactly one resume is started; and while a call
\* of attemptStart is pending no visibility event starts another acquisition.
C16_OneResumePerHiddenPeriod ==
    /\ [][ ( /\ BecomesVisible
             /\ hasAttemptedStartRef /\ ~isActive
             /\ error = NoError /\ userFriendlyError = NoText
             /\ calls = <<>> )
           => ( /\ Len(calls') = 1
                /\ statusOut' = << Text("Resuming camera..."),
                                   Text("Starting camera...") >> ) ]_vars
    /\ [][ ( VisibilityChange /\ AttemptStartPending ) => calls' = calls ]_vars

\* one of the three error views is rendered
ErrorShown == view \in {"ErrorRetry", "SecureRequired", "NotSupported"}

\* C17: a visibility event starts nothing and emits nothing before the first
\* attempt, while an acquisition call is pending, in Fallback without a stream,
\* and while an error view is shown.
C17_ResumeOnlyAfterLostStream ==
    [][ ( /\ VisibilityChange
          /\ \/ ~hasAttemptedStartRef
             \/ calls # <<>>
             \/ view = "Fallback" /\ ~isActive
             \/ ErrorShown )
        => ( calls' = calls /\ statusOut' = <<>> ) ]_vars

\* C18: whenever an error view or the Fallback view is shown, no stream is
\* active.
C18_StreamLiveOnlyWhileActive ==
    ( ErrorShown \/ view = "Fallback" ) => ~isActive

\* the live timers of one watchdog
LiveTimers(kind) == { t \in timers : t.kind = kind }

\* C20: at most one startup watchdog timer and at most one blank watchdog
\* timer is live.
C20_OneTimerPerKind ==
    /\ Cardinality(LiveTimers("startup")) <= 1
    /\ Cardinality(LiveTimers("blank")) <= 1

\* C20 witness: after the automatic restart the blank watchdog is armed again,
\* under a handle that is not the first, and it is the only one of its kind
C20_Witness ==
    /\ restartsThisAttempt = 1
    /\ \E t \in LiveTimers("blank") : t.id > 1 /\ LiveTimers("blank") = {t}
    /\ LiveTimers("startup") = {}

\* C19: once the preview is torn down no watchdog timer is live, and no later
\* step emits a status or changes what the screen announces.
C19_TornDownSessionIsSilent ==
    /\ [](view = "TornDown" => timers = {})
    /\ [][ view = "TornDown"
             => ( statusOut' = <<>> /\ announcement' = announcement ) ]_vars

\* the acquisition attempts of the mounted session have all settled and none
\* left a stream
CompletedWithoutStream ==
    mounted /\ hasAttemptedStartRef /\ calls = <<>> /\ ~isActive

\* C21: an attempt that completes without a stream, by a rejection or
\* silently, leads to an error view or to the Fallback view with the
\* in-flight guard released (or to a new attempt, or to the teardown), given
\* that armed timers fire.
C21_FailedAttemptLeavesLoading ==
    CompletedWithoutStream
        ~> ( \/ (ErrorShown \/ view = "Fallback") /\ ~isStartingRef
             \/ calls # <<>>
             \/ ~mounted )

\* the current attempt acquired a stream and observed a frame, and neither
\* watchdog has expired in it
FrameObservedInTime ==
    /\ mounted /\ isActive /\ isVideoRendering
    /\ ~hasShownFallbackRef /\ restartsThisAttempt = 0

\* C22: an attempt whose acquisition resolved and whose frame was observed
\* before either watchdog expired shows the active preview with no timer
\* live, no Fallback and no error message.
C22_FrameInTimeReachesActive ==
    FrameObservedInTime
        => ( /\ view = "ActivePreview"
             /\ timers = {}
             /\ ~showFallback
             /\ userFriendlyError = NoText )

\* the call that Start Camera issued is the newest one and settles with a
\* stream
ManualStartSucceeds ==
    /\ mounted /\ mounted'
    /\ calls # <<>>
    /\ calls[Len(calls)].origin = "handleFallbackStart"
    /\ calls' = SubSeq(calls, 1, Len(calls) - 1)
    /\ isActive'

\* C23: Start Camera hides the fallback and begins an attempt as the mount
\* does (a call issued after the preflight checks, the restart flag reset,
\* the status 'Starting camera...'); when that call settles with a stream
\* the active preview is rendered.
C23_ManualStartBeginsFreshAttempt ==
    /\ [][ ClickStartCamera =>
             ( /\ ~showFallback' /\ view' = "Loading"
               /\ ~hasAttemptedRestartRef'
               /\ Len(calls') = Len(calls) + 1
               /\ IssuedAfterPreflight(calls'[Len(calls')])
               /\ \E k \in 1..Len(statusOut') :
                      statusOut'[k] = Text("Starting camera...") ) ]_vars
    /\ [][ ManualStartSucceeds => view' = "ActivePreview" ]_vars

\* a preflight check of the mounted session fails
PreflightFailed == mounted /\ ~PreflightOk(St)

\* C24: when a preflight check fails the message is that of the first failing
\* check, the secure-context check first, a view without Retry is rendered,
\* and nothing is started: no call is pending, the in-flight guard is false,
\* no timer is live and no attempt has been recorded for a visibility event
\* to resume.
C24_PreflightFailureIsTerminal ==
    PreflightFailed
        => ( /\ userFriendlyError = (IF ~isSecureContext THEN MsgHttps
                                                        ELSE MsgUnsupported)
             /\ view \in {"SecureRequired", "NotSupported"}
             /\ hasMediaDevices => view = "SecureRequired"
             /\ isSecureContext => view = "NotSupported"
             /\ calls = <<>>
             /\ ~isStartingRef
             /\ timers = {}
             /\ ~hasAttemptedStartRef
             /\ ~isActive )

\* both checks fail and the page has been hidden since the mount
C24_Witness ==
    /\ PreflightFailed /\ ~isSecureContext /\ ~hasMediaDevices
    /\ userFriendlyError = MsgHttps
    /\ visibilityState = "hidden"

\* navigator.permissions.query settles in this step
QuerySettles == mounted' /\ permissionQueryPending /\ ~permissionQueryPending'

\* the change listener of the PermissionStatus runs in this step
ChangeDelivered ==
    mounted' /\ permissionListening /\ platformPermission' # platformPermission

\* what the permission query guarantees wherever it runs
PermissionNeverFalselyDenied ==
    /\ [](permissionState = "denied" => platformPermission = "denied")
    /\ [][ QuerySettles =>
             permissionState' \in {"unknown", FromPlatform(platformPermission')} ]_vars
    /\ [][ ChangeDelivered =>
             permissionState' = FromPlatform(platformPermission') ]_vars

\* C25, as stated: the state is Denied only if the platform reports denied, a
\* settled query yields Unknown or the platform's state, a change event
\* yields the platform's state, and without a Permissions API the state is
\* Unknown.
C25_PermissionQueryAsStated ==
    /\ PermissionNeverFalselyDenied
    /\ []((mounted /\ ~hasPermissionsApi) => permissionState = "unknown")

\* C25, amended: without a Permissions API the state is Unknown when the
\* media capture API exists; without the media capture API it is
\* 'unavailable', whether or not a Permissions API exists.
C25_PermissionQuery ==
    /\ PermissionNeverFalselyDenied
    /\ []((mounted /\ hasMediaDevices /\ ~hasPermissionsApi)
              => permissionState = "unknown")
    /\ []((mounted /\ ~hasMediaDevices) => permissionState = "unavailable")

\* a query failed while the platform reports denied: the state is Unknown
C25_Witness ==
    /\ mounted /\ hasMediaDevices /\ hasPermissionsApi
    /\ platformPermission = "denied"
    /\ ~permissionQueryPending /\ ~permissionListening
    /\ permissionState = "unknown"

\* a call is pending and neither a stream nor an error has arrived
AwaitingAcquisition == mounted /\ calls # <<>> /\ ~isActive /\ error = NoError

\* a startup watchdog armed since the newest call was issued is live
StartupWatchdogLive ==
    \E t \in timers : t.kind = "startup" /\ ~t.superseded

\* C26: while a call is pending with no result and no error, a startup
\* watchdog armed for that attempt is live or the Fallback has been shown.
C26_PendingCallIsWatched ==
    AwaitingAcquisition => (StartupWatchdogLive \/ hasShownFallbackRef)

\* this step issues a call; NewestOrigin names the handler that issued it
CallIssued == mounted' /\ Len(calls') > Len(calls)
NewestOrigin == calls'[Len(calls')].origin

\* C27: hasAttemptedRestartRef becomes true only in the step in which the
\* blank watchdog issues the automatic restart, and that step leaves it true;
\* it becomes false only in a step that begins a fresh attempt (mount, Start
\* Camera, Retry, visibility resume), and every such step leaves it false.
C27_RestartFlagLifecycle ==
    /\ [][ (~hasAttemptedRestartRef /\ hasAttemptedRestartRef')
              => (CallIssued /\ NewestOrigin = "restart") ]_vars
    /\ [][ (CallIssued /\ NewestOrigin = "restart")
              => hasAttemptedRestartRef' ]_vars
    /\ [][ (hasAttemptedRestartRef /\ ~hasAttemptedRestartRef' /\ mounted')
              => (CallIssued /\ NewestOrigin # "restart") ]_vars
    /\ [][ (CallIssued /\ NewestOrigin # "restart")
              => ~hasAttemptedRestartRef' ]_vars

\* Retry began a fresh attempt while the automatic restart of the previous
\* one is still pending
C27_Witness ==
    /\ mounted /\ Len(calls) = 2
    /\ calls[1].origin = "restart" /\ calls[2].origin = "handleRetry"
    /\ ~hasAttemptedRestartRef

\* this step renders an error view that the step before did not render
EntersErrorView == ~ErrorShown /\ ErrorShown'

\* C28: a step into an error view emits a status, and the last status it
\* emits is the message the view displays.
C28_ErrorStatusIsDisplayedMessage ==
    [][ EntersErrorView
          => ( /\ statusOut' # <<>>
               /\ statusOut'[Len(statusOut')] = userFriendlyError' ) ]_vars

\* the acquisition of an automatic restart rejects in this step: the code
\* after retry() runs, then the render and the error effect
RestartRejects ==
    /\ mounted /\ mounted'
    /\ \E i \in 1..Len(calls) :
           calls[i].origin = "restart" /\ calls' = RemoveAt(calls, i)
    /\ error' # NoError /\ error' # error

\* C29: when the acquisition of the automatic restart rejects, the error view
\* with Retry is rendered and the message displayed is the classified one,
\* whatever the code after retry() wrote before the error effect ran.
C29_RestartRejectionEndsInRetryableError ==
    [][ RestartRejects
          => ( /\ view' = "ErrorRetry"
               /\ userFriendlyError'
                    = GetUserFriendlyErrorMessage(error', permissionState') ) ]_vars

(***************************************************************************)
(* Frame capture: the tap on the active preview                            *)
(***************************************************************************)
\* isProcessing of useOnDeviceOcr, as the render that made the handler read it
IsProcessing(s) == s.isProcessing

\* handleTapToCapture(), up to its await; handleKeyDown calls it for Enter
\* and Space
HandleTapToCapture(s) ==
    IF ~s.isActive \/ IsProcessing(s) \/ ~s.isVideoRendering
    THEN s
    ELSE [s EXCEPT !.captures = @ + 1]

(***************************************************************************)
(* useTextToSpeech and the synthesizer of the platform                     *)
(***************************************************************************)
\* A text is the sequence of its parts; " " and "\n" are white space.
IsWhiteSpace(c) == c \in {" ", "\n"}

RECURSIVE TrimStart(_)
TrimStart(t) ==
    IF t # <<>> /\ IsWhiteSpace(Head(t)) THEN TrimStart(Tail(t)) ELSE t

RECURSIVE TrimEnd(_)
TrimEnd(t) ==
    IF t # <<>> /\ IsWhiteSpace(t[Len(t)])
    THEN TrimEnd(SubSeq(t, 1, Len(t) - 1))
    ELSE t

\* String.prototype.trim
Trim(t) == TrimEnd(TrimStart(t))

\* the two messages handleCapture speaks
SayNoText == << "No text found in image" >>
SayError == << "Error processing image" >>

\* speechSynthesis.speaking: an utterance is being spoken or is queued
SynthSpeaking(s) ==
    \E i \in 1..Len(s.utterances) :
        s.utterances[i].phase \in {"queued", "speaking"}

\* speechSynthesis.cancel(): the queued utterance is removed from the queue
\* ("cancelled"), the speaking one is stopped ("interrupted"); the event of
\* each is dispatched later; the paused state stays
SynthCancel(s) ==
    LET us == s.utterances
    IN  [s EXCEPT !.utterances =
                      [i \in 1..Len(us) |->
                          [us[i] EXCEPT !.phase =
                              CASE @ = "queued" -> "cancelled"
                                [] @ = "speaking" -> "interrupted"
                                [] OTHER -> @]]]

\* speak(text)
Speak(s, text) ==
    IF ~s.hasSpeechSynthesis
    THEN [s EXCEPT !.speechError = Text("Speech synthesis not available")]
    ELSE [SynthCancel(s) EXCEPT
             !.utterances = Append(@, [text |-> text, phase |-> "queued"])]

\* pause()
Pause(s) ==
    IF s.hasSpeechSynthesis /\ SynthSpeaking(s)
    THEN [s EXCEPT !.synthPaused = TRUE, !.isPaused = TRUE]
    ELSE s

\* resume()
Resume(s) ==
    IF s.hasSpeechSynthesis /\ s.synthPaused
    THEN [s EXCEPT !.synthPaused = FALSE, !.isPaused = FALSE]
    ELSE s

\* cancel()
Cancel(s) ==
    IF s.hasSpeechSynthesis
    THEN [SynthCancel(s) EXCEPT !.isSpeaking = FALSE, !.isPaused = FALSE]
    ELSE s

\* setRate(), did it store the rate it is given
SetRate_Unclamped(s, newRate) == [s EXCEPT !.rate = newRate]

\* Math.max(0.5, Math.min(2.0, newRate)) and setRateState
SetRate(s, newRate) ==
    LET upper == IF newRate < MaxRate THEN newRate ELSE MaxRate
        clampedRate == IF upper > MinRate THEN upper ELSE MinRate
    IN  [s EXCEPT !.rate = clampedRate]

\* utterance.onstart
OnStart(s) ==
    [s EXCEPT !.isSpeaking = TRUE, !.isPaused = FALSE, !.speechError = NoText]

\* utterance.onend
OnEnd(s) == [s EXCEPT !.isSpeaking = FALSE, !.isPaused = FALSE]

\* utterance.onerror
OnError(s) ==
    [s EXCEPT !.speechError = Text("Speech error: ${event.error}"),
              !.isSpeaking = FALSE, !.isPaused = FALSE]

(***************************************************************************)
(* CameraReaderScreen: capture, recognition and the playback controls      *)
(***************************************************************************)
\* what worker.recognize() may read from a frame
OcrOutputs == { <<>>, << " " >>, << "a" >>, << " ", "b", "\n" >> }

\* how a recognizeText() call may end: with the text read, or by throwing
RecognitionResults ==
    { [ok |-> TRUE, text |-> t] : t \in OcrOutputs }
        \cup { [ok |-> FALSE, text |-> <<>>] }

\* recognizeText(), up to its first await
RecognizeText(s) ==
    [s EXCEPT !.isProcessing = TRUE, !.recognitions = @ + 1]

\* recognizeText(), from the settlement it awaits to its return or throw; the
\* screen that owns the hook stays mounted, isMountedRef.current is true
RecognizeTextResumes(s) ==
    [s EXCEPT !.isProcessing = FALSE, !.recognitions = @ - 1]

\* CameraReaderScreen.handleCapture(), up to its await of recognizeText
HandleCapture(s) ==
    RecognizeText([s EXCEPT !.audioState = "processing",
                            !.announcement = Text("Processing image")])

\* handleTapToCapture(), after its await
HandleTapToCaptureResumes(s, photo) ==
    IF photo THEN HandleCapture(s) ELSE s

\* handleCapture() after its await, were the text stored before it is tested
HandleCaptureResumes_StoresEveryText(s, result) ==
    LET r == [RecognizeTextResumes(s) EXCEPT
                 !.lastRecognizedText = Trim(result.text)]
    IN  IF ~result.ok
        THEN Speak([r EXCEPT !.audioState = "error",
                             !.announcement = Text("Error processing image")],
                   SayError)
        ELSE IF Len(Trim(result.text)) > 0
        THEN Speak([r EXCEPT !.audioState = "success",
                             !.announcement = Text("Text recognized. Reading now.")],
                   Trim(result.text))
        ELSE Speak([r EXCEPT !.audioState = "empty",
                             !.announcement = Text("No text found in image")],
                   SayNoText)

\* CameraReaderScreen.handleCapture(), after its await
HandleCaptureResumes(s, result) ==
    LET r == RecognizeTextResumes(s)
        text == Trim(result.text)
    IN  IF ~result.ok
        THEN Speak([r EXCEPT !.audioState = "error",
                             !.announcement = Text("Error processing image")],
                   SayError)
        ELSE IF Len(Trim(text)) > 0
        THEN Speak([r EXCEPT !.lastRecognizedText = text,
                             !.audioState = "success",
                             !.announcement = Text("Text recognized. Reading now.")],
                   text)
        ELSE Speak([r EXCEPT !.audioState = "empty",
                             !.announcement = Text("No text found in image")],
                   SayNoText)

\* handleRepeat()
HandleRepeat(s) ==
    IF s.lastRecognizedText # <<>>
    THEN Speak(Cancel(s), s.lastRecognizedText)
    ELSE s

\* handlePauseResume()
HandlePauseResume(s) ==
    IF s.isSpeaking /\ ~s.isPaused THEN Pause(s)
    ELSE IF s.isPaused THEN Resume(s)
    ELSE s

\* handleIncreaseRate()
HandleIncreaseRate(s) ==
    LET sum == s.rate + RateStep
        newRate == IF sum < MaxRate THEN sum ELSE MaxRate
    IN  [SetRate(s, newRate) EXCEPT
            !.announcement = Text("Speed increased to ${newRate.toFixed(2)}")]

\* handleDecreaseRate()
HandleDecreaseRate(s) ==
    LET newRate == IF s.rate > MinRate + RateStep
                   THEN s.rate - RateStep ELSE MinRate
    IN  [SetRate(s, newRate) EXCEPT
            !.announcement = Text("Speed decreased to ${newRate.toFixed(2)}")]

\* the user taps the active preview, or presses Enter or Space on it
Tap ==
    /\ mounted /\ view = "ActivePreview" /\ visibilityState = "visible"
    /\ captures + recognitions < MaxCaptures
    /\ Task(HandleTapToCapture(Begin))

\* a pending capturePhoto() settles, with a photo or with null
CaptureResolves(photo) ==
    /\ mounted /\ captures > 0
    /\ Task(HandleTapToCaptureResumes([Begin EXCEPT !.captures = @ - 1], photo))

\* a recognition ends
RecognitionEnds(result) ==
    /\ mounted /\ recognitions > 0
    /\ Task(HandleCaptureResumes(Begin, result))

\* the session up to its first restart, with the taps on its preview
CaptureNext ==
    \/ Mount
    \/ \E i \in 1..MaxCalls, outcome \in Outcomes : Resolve(i, outcome)
    \/ \E t \in timers : StartupTimerFires(t)
    \/ \E t \in timers : BlankTimerFires(t)
    \/ FrameDecoded
    \/ Tap
    \/ \E photo \in BOOLEAN : CaptureResolves(photo)
    \/ \E result \in RecognitionResults : RecognitionEnds(result)

CaptureSpec == Init /\ [][CaptureNext]_vars

\* the tap handler lets a capture through
TapAccepted == isActive /\ isVideoRendering /\ recognitions = 0

\* C30: a captured frame is handed to recognition only while the stream is
\* active, a frame has been observed and no recognition is in progress; a tap
\* in any other state changes nothing.
C30_CaptureOnlyWhenReady ==
    /\ [][ recognitions' > recognitions => TapAccepted ]_vars
    /\ [][ (Tap /\ ~TapAccepted)
              => ( SessionUnchanged
                   /\ UNCHANGED << captures, recognitions, timers >> ) ]_vars

(***************************************************************************)
(* The reader: captures, recognitions, speech and the playback controls    *)
(***************************************************************************)
\* the user activates Repeat
Repeat ==
    /\ mounted /\ visibilityState = "visible"
    /\ Task(HandleRepeat(Begin))

\* the user activates Pause/Resume
PauseResume ==
    /\ mounted /\ visibilityState = "visible"
    /\ Task(HandlePauseResume(Begin))

\* the synthesizer begins to speak the queued utterance
UtteranceStarts(i) ==
    /\ i \in 1..Len(utterances)
    /\ utterances[i].phase = "queued" /\ ~synthPaused
    /\ Task(OnStart([Begin EXCEPT !.utterances[i].phase = "speaking"]))

\* the end event of an utterance is delivered: it was spoken to its end, or
\* it was cancelled
UtteranceEnds(i) ==
    /\ i \in 1..Len(utterances)
    /\ \/ utterances[i].phase = "speaking" /\ ~synthPaused
       \/ utterances[i].phase \in {"cancelled", "interrupted"}
    /\ Task(OnEnd([Begin EXCEPT !.utterances = RemoveAt(@, i)]))

\* the error event of an utterance is delivered: the synthesis failed, or the
\* utterance was cancelled
UtteranceErrors(i) ==
    /\ i \in 1..Len(utterances)
    /\ Task(OnError([Begin EXCEPT !.utterances = RemoveAt(@, i)]))

\* a browser that can run the camera session, with or without a synthesizer
ReaderInit ==
    /\ isSecureContext = TRUE
    /\ hasMediaDevices = TRUE
    /\ hasPermissionsApi = TRUE
    /\ platformPermission = "granted"
    /\ visibilityState = "visible"
    /\ videoHasFrame = FALSE
    /\ timers = {}
    /\ isActive = FALSE
    /\ error = NoError
    /\ isLoading = FALSE
    /\ calls = <<>>
    /\ permissionState = "unknown"
    /\ permissionQueryPending = FALSE
    /\ permissionListening = FALSE
    /\ showFallback = FALSE
    /\ userFriendlyError = NoText
    /\ isVideoRendering = FALSE
    /\ hasAttemptedStartRef = FALSE
    /\ isStartingRef = FALSE
    /\ hasShownFallbackRef = FALSE
    /\ hasAttemptedRestartRef = FALSE
    /\ startupTimeoutRef = 0
    /\ blankPreviewTimeoutRef = 0
    /\ mounted = FALSE
    /\ view = "Unmounted"
    /\ startupCleanup = FALSE
    /\ blankCleanup = FALSE
    /\ videoListening = FALSE
    /\ announcement = NoText
    /\ recognitions = 0
    /\ captures = 0
    /\ statusOut = <<>>
    /\ restartsThisAttempt = 0
    /\ isProcessing = FALSE
    /\ scriptLoaded = FALSE
    /\ scriptLoading = FALSE
    /\ loadPromise = "null"
    /\ tesseract = FALSE
    /\ workerInstance = 0
    /\ workerCalls = <<>>
    /\ hasSpeechSynthesis \in BOOLEAN
    /\ isSpeaking = FALSE
    /\ isPaused = FALSE
    /\ speechError = ( IF hasSpeechSynthesis THEN NoText
                      ELSE Text("Text-to-speech is not supported in this browser") )
    /\ rate = DefaultRate
    /\ utterances = <<>>
    /\ synthPaused = FALSE
    /\ lastRecognizedText = <<>>
    /\ audioState = ""
    /\ scriptsAppended = 0
    /\ workersCreated = 0

ReaderNext ==
    \/ CaptureNext
    \/ Repeat
    \/ PauseResume
    \/ \E i \in 1..MaxUtterances : UtteranceStarts(i)
    \/ \E i \in 1..MaxUtterances : UtteranceEnds(i)
    \/ \E i \in 1..MaxUtterances : UtteranceErrors(i)

ReaderSpec == ReaderInit /\ [][ReaderNext]_vars

\* the recognition read something other than white space
HasInk(text) == \E i \in 1..Len(text) : ~IsWhiteSpace(text[i])

\* the outcome handleCapture shows for a recognition that ended with result
OutcomeOf(result) ==
    IF ~result.ok THEN "error"
    ELSE IF HasInk(result.text) THEN "success"
    ELSE "empty"

\* this step hands exactly one utterance to the synthesizer, the given text,
\* and no other utterance joins or leaves
OneUtteranceSpoken(text) ==
    /\ Len(utterances') = Len(utterances) + 1
    /\ utterances'[Len(utterances')] = [text |-> text, phase |-> "queued"]
    /\ \A i \in 1..Len(utterances) : utterances'[i].text = utterances[i].text

\* this step leaves the speech and the screen's text as they are
ReaderUnchanged ==
    UNCHANGED << utterances, synthPaused, isSpeaking, isPaused, speechError,
                 lastRecognizedText, audioState, announcement >>

\* what the end of a capture shows and stores, apart from what it speaks
CaptureOutcome(result) ==
    /\ audioState' = OutcomeOf(result)
    /\ IF OutcomeOf(result) = "success"
       THEN lastRecognizedText' # <<>> /\ HasInk(lastRecognizedText')
       ELSE UNCHANGED lastRecognizedText

\* the text of the utterance a capture with this result speaks
UtteranceOf(result) ==
    CASE OutcomeOf(result) = "success" -> lastRecognizedText'
      [] OutcomeOf(result) = "empty" -> SayNoText
      [] OTHER -> SayError

\* lastRecognizedText changes only at the end of a successful capture
TextChangesOnSuccessOnly ==
    [][ lastRecognizedText' # lastRecognizedText
          => \E result \in RecognitionResults :
                 RecognitionEnds(result) /\ OutcomeOf(result) = "success" ]_vars

\* C31 as stated: every capture ends in exactly one of success, empty and
\* error and speaks exactly one utterance for it; lastRecognizedText changes
\* only on a success with non-empty text; Repeat speaks lastRecognizedText
\* again and does nothing when there is none.
C31_CaptureOutcomesAsStated ==
    /\ [][ \A result \in RecognitionResults :
               RecognitionEnds(result)
                 => ( CaptureOutcome(result)
                      /\ OneUtteranceSpoken(UtteranceOf(result)) ) ]_vars
    /\ TextChangesOnSuccessOnly
    /\ [][ Repeat
             => IF lastRecognizedText = <<>>
                THEN ReaderUnchanged
                ELSE ( OneUtteranceSpoken(lastRecognizedText)
                       /\ UNCHANGED lastRecognizedText ) ]_vars

\* C31: the same where the browser has a synthesizer; where it has none, the
\* outcome and lastRecognizedText are as stated and nothing is spoken, by a
\* capture or by Repeat.
C31_CaptureOutcomes ==
    /\ [][ \A result \in RecognitionResults :
               RecognitionEnds(result)
                 => ( CaptureOutcome(result)
                      /\ IF hasSpeechSynthesis
                         THEN OneUtteranceSpoken(UtteranceOf(result))
                         ELSE UNCHANGED utterances ) ]_vars
    /\ TextChangesOnSuccessOnly
    /\ [][ Repeat
             => IF lastRecognizedText = <<>>
                THEN ReaderUnchanged
                ELSE ( UNCHANGED lastRecognizedText
                       /\ IF hasSpeechSynthesis
                          THEN OneUtteranceSpoken(lastRecognizedText)
                          ELSE UNCHANGED utterances ) ]_vars

\* a text was recognized, a later capture found none, and Repeat spoke the
\* recognized text again over the message of the empty capture
C31_Witness ==
    /\ audioState = "empty" /\ lastRecognizedText # <<>>
    /\ utterances = << [text |-> SayNoText, phase |-> "cancelled"],
                       [text |-> lastRecognizedText, phase |-> "queued"] >>

(***************************************************************************)
(* The speech rate                                                         *)
(***************************************************************************)
\* rates handed to setRate() directly: below the range, inside it and off
\* the steps of the controls, and above the range
RateInputs == { 0, 110, 300 }

\* the user activates Speed Up
SpeedUp ==
    /\ mounted /\ visibilityState = "visible"
    /\ Task(HandleIncreaseRate(Begin))

\* the user activates Slow Down
SlowDown ==
    /\ mounted /\ visibilityState = "visible"
    /\ Task(HandleDecreaseRate(Begin))

\* setRate(newRate) is called
SetRateCalled(newRate) == Task(SetRate(Begin, newRate))

RateNext ==
    \/ Mount
    \/ SpeedUp
    \/ SlowDown
    \/ \E newRate \in RateInputs : SetRateCalled(newRate)

RateSpec == Init /\ [][RateNext]_vars

\* the rate is a whole number of steps away from 1.0
OnStep(r) == r % RateStep = DefaultRate % RateStep

\* C32: the speech rate stays within [0.5, 2.0] whatever Speed Up, Slow Down
\* and setRate calls are made; from a rate on the steps of 0.25 around 1.0 the
\* two controls move it by exactly one step, or leave it where it is at the
\* limit: Speed Up at 2.0 and Slow Down at 0.5 change nothing.
C32_RateStaysInRange ==
    /\ [](MinRate <= rate /\ rate <= MaxRate)
    /\ [][ SpeedUp => ( /\ rate = MaxRate => rate' = rate
                        /\ (OnStep(rate) /\ rate < MaxRate)
                              => rate' = rate + RateStep ) ]_vars
    /\ [][ SlowDown => ( /\ rate = MinRate => rate' = rate
                         /\ (OnStep(rate) /\ rate > MinRate)
                               => rate' + RateStep = rate ) ]_vars
    /\ [][ (SpeedUp \/ SlowDown) => (OnStep(rate) => OnStep(rate')) ]_vars

\* Slow Down has brought the rate to the lower limit
C32_Witness ==
    /\ rate = MinRate
    /\ announcement = Text("Speed decreased to ${newRate.toFixed(2)}")

\* the synthesizer is speaking an utterance: its start event was delivered,
\* its end or error event was not
SpeakingNow ==
    \E i \in 1..Len(utterances) : utterances[i].phase = "speaking"

\* the end or the error event of an utterance that was superseded while it
\* was being spoken is delivered
LateEvent ==
    \E i \in 1..Len(utterances) :
        /\ utterances[i].phase = "interrupted"
        /\ UtteranceEnds(i) \/ UtteranceErrors(i)

\* C33: isSpeaking is true while the utterance started last is being spoken,
\* and the late end or error event of an utterance that speak() superseded
\* clears neither isSpeaking nor isPaused while its successor is being spoken.
C33_LateEventKeepsSpeaking ==
    /\ [](SpeakingNow => isSpeaking)
    /\ [][ (LateEvent /\ SpeakingNow) => UNCHANGED << isSpeaking, isPaused >> ]_vars

\* C34: isProcessing is true while at least one recognizeText() call is
\* outstanding; when one of two overlapping recognitions completes,
\* isProcessing stays true for the one still running.
C34_ProcessingWhileOutstanding ==
    /\ [](recognitions > 0 => isProcessing)
    /\ [][ (recognitions' < recognitions /\ recognitions' > 0)
              => isProcessing' ]_vars

(***************************************************************************)
(* useOnDeviceOcr: the recognition script and the shared worker            *)
(***************************************************************************)
\* loadTesseractScript(), which is synchronous up to its return; what the
\* caller then awaits is "nothing" (the script was loaded) or "loadPromise"
LoadTesseractScript(s) ==
    IF s.scriptLoaded \/ s.loadPromise # "null" THEN s
    ELSE IF s.scriptLoading THEN [s EXCEPT !.loadPromise = "pending"]
    ELSE [s EXCEPT !.scriptLoading = TRUE,
                   !.scriptsAppended = @ + 1,
                   !.loadPromise = "pending"]

\* getWorker(), up to its await of loadTesseractScript()
GetWorker(s) ==
    [LoadTesseractScript(s) EXCEPT
        !.workerCalls =
            Append(@, [pc |-> "awaitScript",
                       awaits |-> IF s.scriptLoaded THEN "nothing"
                                  ELSE "loadPromise",
                       worker |-> 0])]

\* script.onload
ScriptOnLoad(s, defined) ==
    [s EXCEPT !.scriptLoaded = TRUE, !.scriptLoading = FALSE,
              !.loadPromise = "resolved", !.tesseract = defined]

\* script.onerror
ScriptOnError(s) ==
    [s EXCEPT !.scriptLoading = FALSE, !.loadPromise = "rejected"]

\* what call i awaited from loadTesseractScript() has settled
ScriptAwaitSettled(s, i) ==
    \/ s.workerCalls[i].awaits = "nothing"
    \/ s.loadPromise \in {"resolved", "rejected"}

\* getWorker(), from the settlement of loadTesseractScript() to its next
\* await, its return or its throw
GetWorkerResumes(s, i) ==
    IF s.workerCalls[i].awaits = "loadPromise" /\ s.loadPromise = "rejected"
    THEN [s EXCEPT !.workerCalls[i].pc = "threw"]
    ELSE IF ~s.tesseract
    THEN [s EXCEPT !.workerCalls[i].pc = "threw"]
    ELSE IF s.workerInstance = 0
    THEN [s EXCEPT !.workersCreated = @ + 1,
                   !.workerCalls[i].pc = "awaitCreate",
                   !.workerCalls[i].worker = s.workersCreated + 1]
    ELSE [s EXCEPT !.workerCalls[i].pc = "returned",
                   !.workerCalls[i].worker = s.workerInstance]

\* getWorker(), after its await of createWorker()
CreateWorkerResumes(s, i, ok) ==
    IF ok
    THEN [s EXCEPT !.workerInstance = s.workerCalls[i].worker,
                   !.workerCalls[i].pc = "returned"]
    ELSE [s EXCEPT !.workerCalls[i].pc = "threw",
                   !.workerCalls[i].worker = 0]

\* recognizeText() calls getWorker()
GetWorkerCalled ==
    /\ Len(workerCalls) < MaxWorkerCalls
    /\ \E s \in {GetWorker(Begin)} : Apply(s)

\* the script element has loaded; window.Tesseract is defined or is not
ScriptLoads(defined) ==
    /\ scriptLoading /\ loadPromise = "pending"
    /\ \E s \in {ScriptOnLoad(Begin, defined)} : Apply(s)

\* the script element failed to load
ScriptFails ==
    /\ scriptLoading /\ loadPromise = "pending"
    /\ \E s \in {ScriptOnError(Begin)} : Apply(s)

\* the continuation of call i after `await loadTesseractScript()` runs
ScriptAwaitEnds(i) ==
    /\ i \in 1..Len(workerCalls)
    /\ workerCalls[i].pc = "awaitScript" /\ ScriptAwaitSettled(St, i)
    /\ \E s \in {GetWorkerResumes(Begin, i)} : Apply(s)

\* the createWorker() promise of call i settles
CreateWorkerSettles(i, ok) ==
    /\ i \in 1..Len(workerCalls)
    /\ workerCalls[i].pc = "awaitCreate"
    /\ \E s \in {CreateWorkerResumes(Begin, i, ok)} : Apply(s)

OcrNext ==
    \/ GetWorkerCalled
    \/ \E defined \in BOOLEAN : ScriptLoads(defined)
    \/ ScriptFails
    \/ \E i \in 1..MaxWorkerCalls : ScriptAwaitEnds(i)
    \/ \E i \in 1..MaxWorkerCalls, ok \in BOOLEAN : CreateWorkerSettles(i, ok)

OcrSpec == ReaderInit /\ [][OcrNext]_vars

\* the workers the getWorker() calls have returned
ReturnedWorkers ==
    { workerCalls[i].worker :
          i \in { j \in 1..Len(workerCalls) : workerCalls[j].pc = "returned" } }

\* C35: however concurrent getWorker() calls interleave, the script element
\* is appended at most once, at most one worker is ever created, and every
\* call returns that one worker.
C35_OneScriptOneWorker ==
    /\ scriptsAppended <= 1
    /\ workersCreated <= 1
    /\ Cardinality(ReturnedWorkers) <= 1

=============================================================================
